---- MODULE Spec2Model ----
(***************************************************************************)
(* The img2img_api service: the HTTP endpoints redesign/populated and      *)
(* tasks/{task_id}, PopulatedRoomService (task registry and the redesign   *)
(* pipeline) and the asyncio event loop that runs them.                    *)
(*                                                                         *)
(* Python values: None is <<>>, a present optional value x is <<x>>; a     *)
(* dict is a function whose DOMAIN is its key set; uuid4 strings are the   *)
(* naturals 1, 2, ... in the order they are generated.                     *)
(***************************************************************************)
EXTENDS Integers, Sequences, FiniteSets, TLC

\* ---------------------------------------------------------------- bounds
\* Accepted submissions (task records) in one run.
MaxTasks == 2
\* Largest value the wall clock takes.
MaxTime == 1
\* Constructions of one resource in a run of direct ModelManager calls.
MaxLoads == 2

\* ------------------------------------------------------ program constants
MinSize == 256
MaxSize == 4096
TargetSize == 1400
\* max_length of validate_color_palette.
MaxLength == 500

ApiBaseUrl == "http://localhost:8000"
DataDir == "/srv/img2img_api/data"
RecognisedFormats == {"JPEG", "PNG", "JPG"}
DefaultDescription == "A room with furniture and decorations."

None == <<>>
Some(x) == <<x>>

\* ------------------------------------------------------------ input sets
\* An upload is either bytes PIL cannot open or an image with size and format.
Unreadable == [readable |-> FALSE, width |-> 0, height |-> 0, format |-> "?"]
Image(w, h, f) == [readable |-> TRUE, width |-> w, height |-> h, format |-> f]
\* Sizes on both sides of each bound of validate_image, and each format.
Uploads ==
    { Unreadable,
      Image(255, 256, "JPEG"), Image(256, 255, "PNG"), Image(256, 256, "JPEG"),
      Image(256, 256, "PNG"), Image(256, 256, "JPG"), Image(256, 256, "GIF"),
      Image(2000, 1000, "JPEG"), Image(4096, 4096, "PNG"),
      Image(4097, 4096, "JPEG"), Image(4096, 4097, "JPEG") }
\* The text of n characters "x".
RECURSIVE Chars(_)
Chars(n) ==
    IF n = 0 THEN ""
    ELSE LET half == Chars(n \div 2)
         IN  half \o half \o (IF n % 2 = 1 THEN "x" ELSE "")
\* The multipart forms posted: every upload without a color_palette, and a
\* valid and an invalid image with a color_palette of the longest length
\* validate_color_palette admits and of one character more.
Forms ==
    { [file |-> u, color_palette |-> None] : u \in Uploads }
    \cup { [file |-> Image(256, 256, "JPEG"), color_palette |-> Some(Chars(MaxLength))],
           [file |-> Image(256, 256, "JPEG"), color_palette |-> Some(Chars(MaxLength + 1))],
           [file |-> Image(255, 256, "JPEG"), color_palette |-> Some(Chars(MaxLength + 1))] }
\* The forms posted where only the fate of the task matters: an unreadable
\* upload, an image validate_image rejects and one it accepts.
LiveForms ==
    { [file |-> u, color_palette |-> None] :
        u \in {Unreadable, Image(255, 256, "JPEG"), Image(256, 256, "JPEG")} }
\* Widths and heights given to resize_image: on both sides of the target
\* size and of the bounds of validate_image, and a longer side (2099) whose
\* scale factor is not exact.
ResizeSides == {1, 256, 700, 1000, 1399, 1400, 1401, 2000, 2099, 4096}
Styles == {"modern", "rustic"}
RoomTypes == {"living room"}
\* str(e) of the exceptions the third-party steps raise; a bare
\* AssertionError() or ValueError() has the empty text.
ErrorTexts == {"", "CUDA out of memory"}
\* str(e) of a from_pretrained that fails; None when the load succeeds.
LoadOutcomes == {None, Some("CUDA out of memory")}
\* Names asked of a ModelManager: the ones it knows and one it does not.
Names == {"florence-2", "canny", "flux-canny", "sdxl"}
\* What the hosted text-generation call does.
GptOutcomes == {"ok", "raise", "malformed", "missing_key"}

\* --------------------------------------------------------- pure functions
\* Mutant of Uuid4: the generator repeats the identifiers it gave two calls ago.
Uuid4Repeat(n) == IF n > 2 THEN n - 2 ELSE n

\* uuid.uuid4(): the n-th identifier generated differs from all before it.
Uuid4(n) == n

Max(a, b) == IF a >= b THEN a ELSE b

\* Mutant of ValidateImage: the lower bound is compared with <= instead of <.
ValidateImageStrict(image) ==
    IF image.width <= MinSize \/ image.height <= MinSize
    THEN [status_code |-> 400, detail |-> "Image dimensions too small."]
    ELSE IF image.width > MaxSize \/ image.height > MaxSize
    THEN [status_code |-> 400, detail |-> "Image dimensions too large."]
    ELSE IF image.format \notin RecognisedFormats
    THEN [status_code |-> 400, detail |-> "Unsupported image format."]
    ELSE [status_code |-> 200, detail |-> "ok"]

\* validate_image: status_code 200 when it returns, else the HTTPException it raises.
ValidateImage(image) ==
    IF image.width < MinSize \/ image.height < MinSize
    THEN [status_code |-> 400,
          detail |-> "Image dimensions too small. Minimum size is "
                     \o ToString(MinSize) \o "x" \o ToString(MinSize) \o " pixels."]
    ELSE IF image.width > MaxSize \/ image.height > MaxSize
    THEN [status_code |-> 400,
          detail |-> "Image dimensions too large. Maximum size is "
                     \o ToString(MaxSize) \o "x" \o ToString(MaxSize) \o " pixels."]
    ELSE IF image.format \notin RecognisedFormats
    THEN [status_code |-> 400,
          detail |-> "Unsupported image format. Please upload a JPEG or PNG image."]
    ELSE [status_code |-> 200, detail |-> "ok"]

\* validate_color_palette: status_code 200 when it returns, else the
\* HTTPException it raises.
ValidateColorPalette(color_palette) ==
    IF Len(color_palette) > MaxLength
    THEN [status_code |-> 400,
          detail |-> "Color palette description too long. Maximum length is "
                     \o ToString(MaxLength) \o " characters."]
    ELSE [status_code |-> 200, detail |-> "ok"]

\* str() of a starlette HTTPException: "<status_code>: <detail>".
StrHTTPException(exc) == ToString(exc.status_code) \o ": " \o exc.detail

\* ---- Python floats: IEEE 754 binary64, round to nearest, ties to even.
\* A positive float is [sig |-> its 53 significand bits, first bit 1, most
\* significant first; exp |-> e]: the number sig * 2^e.  Exact intermediate
\* results are kept as digits in base 2^16, most significant first, so that
\* every product stays below 2^31 for operands below 2^15.
Precision == 53
LimbBits == 16
Limb == 65536

\* The natural number with these binary digits.
RECURSIVE IntOf(_)
IntOf(bits) ==
    IF bits = <<>> THEN 0
    ELSE 2 * IntOf(SubSeq(bits, 1, Len(bits) - 1)) + bits[Len(bits)]

\* The binary digits of a sequence of base-2^16 digits.
LimbsToBits(limbs) ==
    [i \in 1..(LimbBits * Len(limbs)) |->
        (limbs[((i - 1) \div LimbBits) + 1] \div 2^(LimbBits - 1 - ((i - 1) % LimbBits))) % 2]

\* The base-2^16 digits of a sequence of binary digits.
BitsToLimbs(bits) ==
    LET pad == (LimbBits - (Len(bits) % LimbBits)) % LimbBits
        padded == [i \in 1..pad |-> 0] \o bits
    IN  [j \in 1..(Len(padded) \div LimbBits) |->
            IntOf(SubSeq(padded, LimbBits * (j - 1) + 1, LimbBits * j))]

\* Binary digits without their leading zeros (of a number that is not zero).
Strip(bits) ==
    LET first == CHOOSE i \in 1..Len(bits) :
                    bits[i] = 1 /\ \A j \in 1..(i - 1) : bits[j] = 0
    IN  SubSeq(bits, first, Len(bits))

\* The digits of the number one larger (one digit longer when all were 1).
Incremented(bits) ==
    IF \A i \in 1..Len(bits) : bits[i] = 1
    THEN <<1>> \o [i \in 1..Len(bits) |-> 0]
    ELSE LET last0 == CHOOSE i \in 1..Len(bits) :
                         bits[i] = 0 /\ \A j \in (i + 1)..Len(bits) : bits[j] = 1
         IN  [i \in 1..Len(bits) |->
                 IF i < last0 THEN bits[i] ELSE IF i = last0 THEN 1 ELSE 0]

\* The float nearest to bits * 2^exp (bits has no leading zero): the first 53
\* digits, rounded up when the rest is more than half a unit in the last
\* place, or exactly half and the last kept digit is odd.
RoundToPrecision(bits, exp) ==
    IF Len(bits) <= Precision
    THEN [sig |-> bits \o [i \in 1..(Precision - Len(bits)) |-> 0],
          exp |-> exp - (Precision - Len(bits))]
    ELSE LET kept == SubSeq(bits, 1, Precision)
             rest == SubSeq(bits, Precision + 1, Len(bits))
             up == /\ rest[1] = 1
                   /\ \/ \E i \in 2..Len(rest) : rest[i] = 1
                      \/ kept[Precision] = 1
             r == IF up THEN Incremented(kept) ELSE kept
         IN  IF Len(r) > Precision
             THEN [sig |-> SubSeq(r, 1, Precision), exp |-> exp + Len(rest) + 1]
             ELSE [sig |-> r, exp |-> exp + Len(rest)]

\* Long division: n more base-2^16 digits of r / b after the point, and the
\* remainder left, as <<digits, remainder>>.
RECURSIVE Fraction(_, _, _)
Fraction(r, b, n) ==
    IF n = 0 THEN <<<<>>, r>>
    ELSE LET next == Fraction((r * Limb) % b, b, n - 1)
         IN  << <<(r * Limb) \div b>> \o next[1], next[2] >>

\* a / b for positive ints a and b below 2^15: Python's true division,
\* correctly rounded.  Five digits after the point leave at least 54
\* significant bits; a last bit tells whether a remainder is left.
DivideDouble(a, b) ==
    LET q == Fraction(a % b, b, 5)
        bits == LimbsToBits(<<a \div b>> \o q[1]) \o <<IF q[2] = 0 THEN 0 ELSE 1>>
    IN  RoundToPrecision(Strip(bits), 0 - (5 * LimbBits + 1))

\* The base-2^16 digits of limbs * n + carry.
RECURSIVE Times(_, _, _)
Times(limbs, n, carry) ==
    IF limbs = <<>> THEN <<carry>>
    ELSE LET v == limbs[Len(limbs)] * n + carry
         IN  Append(Times(SubSeq(limbs, 1, Len(limbs) - 1), n, v \div Limb), v % Limb)

\* n * d for a positive int n below 2^15 and a float d: the exact product,
\* rounded.
MultiplyDouble(n, d) ==
    RoundToPrecision(Strip(LimbsToBits(Times(BitsToLimbs(d.sig), n, 0))), d.exp)

\* int(d): truncation.
IntDouble(d) ==
    IF d.exp >= 0 THEN IntOf(d.sig \o [i \in 1..d.exp |-> 0])
    ELSE IF 0 - d.exp >= Precision THEN 0
    ELSE IntOf(SubSeq(d.sig, 1, Precision + d.exp))

\* Mutant of ResizeImage: the early return is missing, every image is scaled.
ResizeImageAlways(size, target_size) ==
    LET scale_factor == DivideDouble(target_size, Max(size[1], size[2]))
    IN  << IntDouble(MultiplyDouble(size[1], scale_factor)),
           IntDouble(MultiplyDouble(size[2], scale_factor)) >>

\* resize_image on a size <<width, height>>: the size of the image returned.
ResizeImage(size, target_size) ==
    IF size[1] <= target_size /\ size[2] <= target_size
    THEN size
    ELSE LET scale_factor == DivideDouble(target_size, Max(size[1], size[2]))
         IN  << IntDouble(MultiplyDouble(size[1], scale_factor)),
                IntDouble(MultiplyDouble(size[2], scale_factor)) >>

\* save_image: the absolute path written, os.path.join(DATA_DIR, relative_path).
SavePath(relative_path) == DataDir \o "/" \o relative_path

InputRelPath(request_id) == "inputs/" \o ToString(request_id) \o "_input.png"
OutputName(request_id) == ToString(request_id) \o "_output.png"
OutputRelPath(request_id) == "outputs/" \o OutputName(request_id)

\* Mutant of GetImageUrl: the URL leaves out the outputs directory.
GetImageUrlFlat(basename) == ApiBaseUrl \o "/data/" \o basename

\* get_image_url; the argument is already a base name at its one call site.
GetImageUrl(basename) == ApiBaseUrl \o "/data/outputs/" \o basename

\* Mutant of DefaultPrompts: style and room_type are interpolated the wrong way round.
DefaultPromptsSwapped(style, room_type) ==
    [clip |-> "A " \o room_type \o " " \o style
              \o " with elegant furniture, balanced lighting, and harmonious colors.",
     t5 |-> "Transform this " \o style \o " into a " \o room_type \o " style space."]

\* default_prompts of _generate_design_prompts.
DefaultPrompts(style, room_type) ==
    [clip |-> "A " \o style \o " " \o room_type
              \o " with elegant furniture, balanced lighting, and harmonious colors.",
     t5 |-> "Transform this " \o room_type \o " into a " \o style
            \o " style space. Include furniture appropriate for a " \o room_type
            \o ", with balanced composition, proper lighting, and a cohesive color scheme that matches the "
            \o style \o " aesthetic."]

\* dict.get(key): None when the key is absent.
DictGet(d, key) == IF key \in DOMAIN d THEN Some(d[key]) ELSE None

\* Python's d[k] = v on a dict d.
Put(d, k, v) == [x \in DOMAIN d \cup {k} |-> IF x = k THEN v ELSE d[x]]

\* ModelManager.__init__: three empty caches.
NewModelManager == [models |-> <<>>, processors |-> <<>>, pipelines |-> <<>>]

\* The outcome of a ModelManager call: the manager after it, and the value it
\* returned or the text of the exception it raised; `constructed` tells
\* whether the call built a resource.
Returned(mm, value, constructed) ==
    [manager |-> mm, returns |-> Some(value), raises |-> None, constructed |-> constructed]
Raised(mm, e) ==
    [manager |-> mm, returns |-> None, raises |-> Some(e), constructed |-> FALSE]

\* Mutant of GetModel: the cache is not consulted, the model is loaded at every call.
GetModelReloads(mm, model_name, fresh, load) ==
    IF model_name = "florence-2"
    THEN IF load = None
         THEN Returned([mm EXCEPT !.models = Put(@, model_name, fresh)], fresh, TRUE)
         ELSE Raised(mm, load[1])
    ELSE Raised(mm, "Unknown model: " \o model_name)

\* ModelManager.get_model; `fresh` is the object _load_florence_model would
\* build and `load` the error it would raise instead (None: it succeeds).
GetModel(mm, model_name, fresh, load) ==
    IF model_name \in DOMAIN mm.models
    THEN Returned(mm, mm.models[model_name], FALSE)
    ELSE IF model_name = "florence-2"
    THEN IF load = None
         THEN Returned([mm EXCEPT !.models = Put(@, model_name, fresh)], fresh, TRUE)
         ELSE Raised(mm, load[1])
    ELSE Raised(mm, "Unknown model: " \o model_name)

\* ModelManager.get_processor
GetProcessor(mm, processor_name, fresh, load) ==
    IF processor_name \in DOMAIN mm.processors
    THEN Returned(mm, mm.processors[processor_name], FALSE)
    ELSE IF processor_name \in {"florence-2", "canny"}
    THEN IF load = None
         THEN Returned([mm EXCEPT !.processors = Put(@, processor_name, fresh)], fresh, TRUE)
         ELSE Raised(mm, load[1])
    ELSE Raised(mm, "Unknown processor: " \o processor_name)

\* ModelManager.get_pipeline
GetPipeline(mm, pipeline_name, fresh, load) ==
    IF pipeline_name \in DOMAIN mm.pipelines
    THEN Returned(mm, mm.pipelines[pipeline_name], FALSE)
    ELSE IF pipeline_name = "flux-canny"
    THEN IF load = None
         THEN Returned([mm EXCEPT !.pipelines = Put(@, pipeline_name, fresh)], fresh, TRUE)
         ELSE Raised(mm, load[1])
    ELSE Raised(mm, "Unknown pipeline: " \o pipeline_name)

\* Python's del d[k].
Del(d, k) == [x \in DOMAIN d \ {k} |-> d[x]]

\* ModelManager.unload_model: the manager after the call.
UnloadModel(mm, model_name) ==
    IF model_name \in DOMAIN mm.models
    THEN [mm EXCEPT !.models = Del(@, model_name)]
    ELSE mm

\* Mutant of UnloadPipeline: unloading a pipeline also drops the cached models.
UnloadPipelineDropsModels(mm, pipeline_name) ==
    IF pipeline_name \in DOMAIN mm.pipelines
    THEN [mm EXCEPT !.pipelines = Del(@, pipeline_name), !.models = <<>>]
    ELSE mm

\* ModelManager.unload_pipeline: the manager after the call.
UnloadPipeline(mm, pipeline_name) ==
    IF pipeline_name \in DOMAIN mm.pipelines
    THEN [mm EXCEPT !.pipelines = Del(@, pipeline_name)]
    ELSE mm

\* PopulatedRoomService.__init__ without a model_manager argument: a
\* ModelManager of its own and an empty registry; the OpenAI constructor
\* raises without an api key, which leaves openai_client None.
NewService(has_key) ==
    [model_manager |-> NewModelManager, tasks |-> <<>>, openai_client |-> has_key]

\* Mutant of GetTaskStatus: a record that is still pending is reported as unknown.
GetTaskStatusHidesPending(service, task_id) ==
    IF task_id \notin DOMAIN service.tasks \/ service.tasks[task_id].status = "pending"
    THEN [status |-> "not_found"]
    ELSE service.tasks[task_id]

\* PopulatedRoomService.get_task_status.
GetTaskStatus(service, task_id) ==
    IF task_id \notin DOMAIN service.tasks
    THEN [status |-> "not_found"]
    ELSE service.tasks[task_id]


\* ------------------------------------------------------------------ state
VARIABLES
    credential,  \* OPENAI_API_KEY is set in the process environment
    services,    \* the PopulatedRoomService instances that hold a task
    co,          \* task id -> frame of its _process_redesign coroutine
    ready,       \* the event loop's FIFO of coroutines created and not yet started
    loop,        \* the task whose coroutine is running (0: the loop is idle)
    files,       \* paths of the files written under DATA_DIR
    now,         \* the wall clock, time.time()
    nextUuid,    \* ordinal of the next uuid4
    hostedCalls, \* calls received by the hosted text-generation service
    built,       \* <<cache, name>> -> how many times that resource was constructed
    last,        \* the HTTP exchange answered by the step just taken, if any
    log,         \* what the step just taken did: its last log line
    call         \* the direct call of a function made by the step just taken, if any

vars == <<credential, services, co, ready, loop, files, now, nextUuid, hostedCalls,
          built, last, log, call>>

\* The resources a process can construct: the captioning model and its
\* processor, the edge detector and the diffusion pipeline.
Resources ==
    { <<"models", "florence-2">>, <<"processors", "florence-2">>,
      <<"processors", "canny">>, <<"pipelines", "flux-canny">> }

\* The object the next construction of resource <<cache, name>> yields.
FreshObject(cache, name) ==
    [cache |-> cache, name |-> name,
     serial |-> IF <<cache, name>> \in DOMAIN built THEN built[<<cache, name>>] + 1 ELSE 1]

\* `built` after the call with outcome `out` for resource <<cache, name>>.
Count(b, cache, name, out) ==
    IF out.constructed THEN [b EXCEPT ![<<cache, name>>] = @ + 1] ELSE b

NoCall == [fn |-> "none", arg |-> None, returns |-> None, raises |-> None,
           constructed |-> FALSE]

\* The values time.time() may return at a call: the clock does not run backwards.
ClockReads == IF now < MaxTime THEN {now, now + 1} ELSE {now}

NoExchange ==
    [kind |-> "none", upload |-> Unreadable, color_palette |-> None, asked |-> 0,
     code |-> 0, detail |-> "",
     message |-> None, task_id |-> None, status |-> None, output_url |-> None,
     created_at |-> None, completed_at |-> None, error |-> None]

\* What a step of `step` did for task `task` (0: a request handler): it returned
\* ("ok"), raised to its caller ("raised", with str(e)), or caught its own
\* error and returned a substitute ("fallback").
Event(task, step, outcome, error) ==
    [task |-> task, step |-> step, outcome |-> outcome, error |-> error]
NoEvent == Event(0, "none", "none", "")

\* Every record of every registry, as <<service, task id>> pairs.
Records == UNION { { <<s, t>> : t \in DOMAIN services[s].tasks } : s \in DOMAIN services }
Rec(p) == services[p[1]].tasks[p[2]]

\* The frame of a coroutine created by asyncio.create_task(self._process_redesign(...)):
\* its arguments and its locals.
NewFrame(s, input_image, request_id, style, room_type, color_palette) ==
    [svc |-> s, pc |-> "created", request_id |-> request_id,
     style |-> Some(style), room_type |-> Some(room_type),
     color_palette |-> color_palette,
     input_size |-> Some(<<input_image.width, input_image.height>>),
     resized |-> None, description |-> None, prompts |-> None,
     passed |-> None, output_path |-> None, exc |-> None]

\* The frame of a coroutine that has returned: arguments and locals are gone.
Finished(frame) ==
    [frame EXCEPT !.pc = "done", !.style = None, !.room_type = None,
                  !.color_palette = None,
                  !.input_size = None, !.resized = None, !.description = None,
                  !.prompts = None, !.passed = None, !.output_path = None,
                  !.exc = None]

\* PopulatedRoomService.submit_redesign_task on instance s of svcs, at clock
\* reading t: the registry after the call.
SubmitRegistry(svcs, s, task_id, request_id, t) ==
    [svcs EXCEPT ![s].tasks =
        Put(@, task_id, [status |-> "pending", request_id |-> request_id, created_at |-> t])]

\* ---------------------------------------------------- POST redesign/populated
PostError(upload, color_palette, detail) ==
    [NoExchange EXCEPT !.kind = "post", !.upload = upload,
                       !.color_palette = color_palette, !.code = 500,
                       !.detail = "Error processing redesign request: " \o detail]

\* redesign_populated_room on `upload` and the form field `color_palette`, with
\* `svcs[s]` as the injected service.  validate_color_palette is not called.
HandlePost(svcs, s, upload, color_palette) ==
    /\ loop = 0
    /\ \/ \* Image.open raises: caught by the handler's except Exception
          /\ ~upload.readable
          /\ last' = PostError(upload, color_palette, "cannot identify image file")
          /\ log' = Event(0, "open", "raised", "cannot identify image file")
          /\ UNCHANGED <<services, co, ready, files, now, nextUuid>>
       \/ \* validate_image raises HTTPException(400) inside the try: caught too
          /\ upload.readable
          /\ ValidateImage(upload).status_code # 200
          /\ last' = PostError(upload, color_palette, StrHTTPException(ValidateImage(upload)))
          /\ log' = Event(0, "validate", "raised", StrHTTPException(ValidateImage(upload)))
          /\ UNCHANGED <<services, co, ready, files, now, nextUuid>>
       \/ \* save_image of the input raises (PIL removes the file it created; the
          \* request id generated just before is dropped with the request)
          /\ upload.readable
          /\ ValidateImage(upload).status_code = 200
          /\ last' = PostError(upload, color_palette, "No space left on device")
          /\ log' = Event(0, "save_input", "raised", "No space left on device")
          /\ UNCHANGED <<services, co, ready, files, now, nextUuid>>
       \/ /\ upload.readable
          /\ ValidateImage(upload).status_code = 200
          /\ Cardinality(DOMAIN co) < MaxTasks
          /\ LET request_id == Uuid4(nextUuid)
                 task_id == Uuid4(nextUuid + 1)
             IN  \E style \in Styles, room_type \in RoomTypes, t \in ClockReads :
                   /\ files' = files \cup {SavePath(InputRelPath(request_id))}
                   /\ services' = SubmitRegistry(svcs, s, task_id, request_id, t)
                   /\ co' = Put(co, task_id,
                                NewFrame(s, upload, request_id, style, room_type,
                                         color_palette))
                   /\ ready' = Append(ready, task_id)
                   /\ now' = t
                   /\ nextUuid' = nextUuid + 2
                   /\ last' = [NoExchange EXCEPT !.kind = "post", !.upload = upload,
                                 !.color_palette = color_palette, !.code = 200,
                                 !.message = Some("Room redesign processing started"),
                                 !.output_url = Some(GetImageUrl(OutputName(request_id))),
                                 !.task_id = Some(task_id)]
                   /\ log' = Event(0, "submit", "ok", "")
    /\ call' = NoCall
    /\ UNCHANGED <<credential, loop, hostedCalls, built>>

\* ------------------------------------------------------ GET tasks/{task_id}
\* The response tasks.get_task_status builds from a found record.
TaskResponse(task_id, task_info) ==
    [NoExchange EXCEPT !.kind = "get", !.asked = task_id, !.code = 200,
        !.task_id = Some(task_id),
        !.status = DictGet(task_info, "status"),
        !.created_at = DictGet(task_info, "created_at"),
        !.output_url = IF "output_path" \in DOMAIN task_info
                       THEN DictGet(task_info, "output_url") ELSE None,
        !.completed_at = IF "completed_at" \in DOMAIN task_info
                         THEN DictGet(task_info, "completed_at") ELSE None,
        !.error = IF "error" \in DOMAIN task_info
                  THEN DictGet(task_info, "error") ELSE None]

\* Mutant of HandleGet: the handler also runs while a coroutine holds the event
\* loop, between two statements of _process_redesign.
HandleGetInterleaved(service, task_id) ==
    /\ LET task_info == GetTaskStatus(service, task_id)
       IN  /\ last' = IF DictGet(task_info, "status") = Some("not_found")
                      THEN [NoExchange EXCEPT !.kind = "get", !.asked = task_id, !.code = 404,
                              !.detail = "Task with ID " \o ToString(task_id) \o " not found"]
                      ELSE TaskResponse(task_id, task_info)
           /\ call' = [NoCall EXCEPT !.fn = "get_task_status", !.arg = Some(task_id),
                                     !.returns = Some(task_info)]
    /\ log' = NoEvent
    /\ UNCHANGED <<credential, services, co, ready, loop, files, now, nextUuid, hostedCalls,
                   built>>

\* tasks.get_task_status with `service` as the injected service.
HandleGet(service, task_id) ==
    /\ loop = 0
    /\ LET task_info == GetTaskStatus(service, task_id)
       IN  /\ last' = IF DictGet(task_info, "status") = Some("not_found")
                      THEN [NoExchange EXCEPT !.kind = "get", !.asked = task_id, !.code = 404,
                              !.detail = "Task with ID " \o ToString(task_id) \o " not found"]
                      ELSE TaskResponse(task_id, task_info)
           /\ call' = [NoCall EXCEPT !.fn = "get_task_status", !.arg = Some(task_id),
                                     !.returns = Some(task_info)]
    /\ log' = NoEvent
    /\ UNCHANGED <<credential, services, co, ready, loop, files, now, nextUuid, hostedCalls,
                   built>>

\* ------------------------------------------------- _process_redesign, by step
\* A reply of the hosted service that parses and holds both prompts.
GptPrompts == [clip |-> "gpt clip prompt", t5 |-> "gpt t5 prompt"]
\* A reply that parses as a JSON object without the "t5" key.
GptPartial == [clip |-> "gpt clip prompt"]

\* Mutant of UpdateRecord: the fields are written into every record of the
\* registry, not only the record of task t.
UpdateRecordOfAll(t, fields) ==
    [services EXCEPT ![co[t].svc].tasks =
        [u \in DOMAIN @ |->
            [k \in DOMAIN @[u] \cup DOMAIN fields |->
                IF k \in DOMAIN fields THEN fields[k] ELSE @[u][k]]]]

\* self.tasks[task_id][key] = value for each key of `fields`.
UpdateRecord(t, fields) ==
    [services EXCEPT ![co[t].svc].tasks[t] =
        [k \in DOMAIN @ \cup DOMAIN fields |-> IF k \in DOMAIN fields THEN fields[k] ELSE @[k]]]

\* `services` with mm as the ModelManager of the service task t runs on.
WithManager(t, mm) == [services EXCEPT ![co[t].svc].model_manager = mm]
\* The ModelManager of the service task t runs on.
ManagerOf(t) == services[co[t].svc].model_manager

\* What every step of a coroutine leaves alone: it answers no request and
\* makes no direct call, and does not touch the environment, the ready queue
\* or the uuid generator.
Quiet ==
    /\ last' = NoExchange
    /\ call' = NoCall
    /\ UNCHANGED <<credential, ready, nextUuid>>

\* Step `step` of task t returns (`outcome` "ok", or "fallback" when it caught
\* its own error): the task goes on to `next_pc` with its frame changed to `frame`.
Advance(t, step, outcome, next_pc, frame) ==
    /\ co' = [co EXCEPT ![t] = [frame EXCEPT !.pc = next_pc]]
    /\ log' = Event(t, step, outcome, "")
    /\ UNCHANGED <<loop, files, now>>

\* Step `step` of task t raises an exception with text e: control passes to
\* the except Exception handler of _process_redesign, lines 127-128.
Except(t, step, e) ==
    /\ co' = [co EXCEPT ![t] = [@ EXCEPT !.pc = "mark_failed", !.exc = Some(e)]]
    /\ log' = Event(t, step, "raised", e)
    /\ UNCHANGED <<loop, files, now>>

\* An external call made by step `step` of task t never returns: the
\* coroutine stays inside the call, and it has not awaited, so it keeps the
\* event loop.
Hang(t, step) ==
    /\ co' = [co EXCEPT ![t].pc = "hung"]
    /\ log' = Event(t, step, "hung", "")
    /\ UNCHANGED <<loop, files, now>>

\* Mutant of StartProcess: the coroutine starts without marking the record processing.
StartProcessUnmarked(t) ==
    /\ loop = 0
    /\ ready # <<>>
    /\ t = Head(ready)
    /\ co[t].pc = "created"
    /\ ready' = Tail(ready)
    /\ loop' = t
    /\ co' = [co EXCEPT ![t].pc = "resize"]
    /\ last' = NoExchange
    /\ call' = NoCall
    /\ log' = Event(t, "start", "ok", "")
    /\ UNCHANGED <<credential, services, files, now, nextUuid, hostedCalls, built>>

\* The event loop starts the oldest created coroutine: line 91.
StartProcess(t) ==
    /\ loop = 0
    /\ ready # <<>>
    /\ t = Head(ready)
    /\ co[t].pc = "created"
    /\ ready' = Tail(ready)
    /\ loop' = t
    /\ services' = UpdateRecord(t, [status |-> "processing"])
    /\ co' = [co EXCEPT ![t].pc = "resize"]
    /\ last' = NoExchange
    /\ call' = NoCall
    /\ log' = Event(t, "start", "ok", "")
    /\ UNCHANGED <<credential, files, now, nextUuid, hostedCalls, built>>

\* 1. resize_image(input_image, target_size=1400)
StepResize(t) ==
    /\ loop = t
    /\ co[t].pc = "resize"
    /\ \/ Advance(t, "resize", "ok", "caption",
                  [co[t] EXCEPT !.resized = Some(ResizeImage(co[t].input_size[1], TargetSize))])
       \/ \E e \in ErrorTexts : Except(t, "resize", e)
    /\ Quiet
    /\ UNCHANGED <<services, hostedCalls, built>>

\* 2. _generate_image_description: get_model and get_processor of the service's
\* ModelManager, then inference; any error inside is caught there and the
\* default description returned.
StepCaption(t) ==
    /\ loop = t
    /\ co[t].pc = "caption"
    /\ \E load_model \in LoadOutcomes, load_processor \in LoadOutcomes :
         LET m == GetModel(ManagerOf(t), "florence-2",
                           FreshObject("models", "florence-2"), load_model)
             p == GetProcessor(m.manager, "florence-2",
                               FreshObject("processors", "florence-2"), load_processor)
             fallback == [co[t] EXCEPT !.description = Some(DefaultDescription)]
         IN  \/ /\ m.raises # None
                /\ Advance(t, "caption", "fallback", "prompts", fallback)
                /\ UNCHANGED <<services, built>>
             \/ /\ m.raises = None
                /\ p.raises # None
                /\ Advance(t, "caption", "fallback", "prompts", fallback)
                /\ services' = WithManager(t, m.manager)
                /\ built' = Count(built, "models", "florence-2", m)
             \/ /\ m.raises = None
                /\ p.raises = None
                /\ services' = WithManager(t, p.manager)
                /\ built' = Count(Count(built, "models", "florence-2", m),
                                  "processors", "florence-2", p)
                /\ \/ Advance(t, "caption", "ok", "prompts",
                              [co[t] EXCEPT !.description = Some("a furnished room, described")])
                   \/ Advance(t, "caption", "fallback", "prompts", fallback)
                   \/ Hang(t, "caption")
    /\ Quiet
    /\ UNCHANGED hostedCalls

\* What _generate_design_prompts returns for an outcome of the hosted call.
PromptsFor(outcome, style, room_type) ==
    CASE outcome = "ok" -> GptPrompts
      [] outcome = "missing_key" -> GptPartial
      [] OTHER -> DefaultPrompts(style, room_type)

\* 3. _generate_design_prompts
StepPrompts(t) ==
    /\ loop = t
    /\ co[t].pc = "prompts"
    /\ \/ /\ ~services[co[t].svc].openai_client
          /\ Advance(t, "prompts", "ok", "control",
                     [co[t] EXCEPT !.prompts =
                         Some(DefaultPrompts(co[t].style[1], co[t].room_type[1]))])
          /\ UNCHANGED hostedCalls
       \/ /\ services[co[t].svc].openai_client
          /\ hostedCalls' = hostedCalls + 1
          /\ \/ \E outcome \in GptOutcomes :
                   Advance(t, "prompts",
                           IF outcome \in {"raise", "malformed"} THEN "fallback" ELSE "ok",
                           "control",
                           [co[t] EXCEPT
                               !.prompts = Some(PromptsFor(outcome, co[t].style[1],
                                                           co[t].room_type[1]))])
             \/ Hang(t, "prompts")
    /\ Quiet
    /\ UNCHANGED <<services, built>>

\* Mutant of StepControl: an error of the edge detector is logged and the
\* pipeline goes on to the next step.
StepControlContinue(t) ==
    /\ loop = t
    /\ co[t].pc = "control"
    /\ built' = [built EXCEPT ![<<"processors", "canny">>] = @ + 1]
    /\ \/ Advance(t, "control", "ok", "generate", co[t])
       \/ \E e \in ErrorTexts :
             /\ co' = [co EXCEPT ![t].pc = "generate"]
             /\ log' = Event(t, "control", "raised", e)
             /\ UNCHANGED <<loop, files, now>>
    /\ Quiet
    /\ UNCHANGED <<services, hostedCalls>>

\* 4. _create_control_image: a CannyDetector() of its own at every call, not
\* the ModelManager's "canny" processor.
StepControl(t) ==
    /\ loop = t
    /\ co[t].pc = "control"
    /\ built' = [built EXCEPT ![<<"processors", "canny">>] = @ + 1]
    /\ \/ Advance(t, "control", "ok", "generate", co[t])
       \/ \E e \in ErrorTexts : Except(t, "control", e)
    /\ Quiet
    /\ UNCHANGED <<services, hostedCalls>>

\* 5. _generate_redesigned_image(control_image, prompts["clip"], prompts["t5"]):
\* get_pipeline of the service's ModelManager, then the pipeline call.
StepGenerate(t) ==
    /\ loop = t
    /\ co[t].pc = "generate"
    /\ LET prompts == co[t].prompts[1]
       IN  \/ \* prompts["t5"] raises KeyError while the call's arguments are built
              /\ {"clip", "t5"} \ DOMAIN prompts # {}
              /\ Except(t, "generate", "'t5'")
              /\ UNCHANGED <<services, built>>
           \/ /\ {"clip", "t5"} \subseteq DOMAIN prompts
              /\ \E load \in LoadOutcomes :
                   LET g == GetPipeline(ManagerOf(t), "flux-canny",
                                        FreshObject("pipelines", "flux-canny"), load)
                   IN  /\ services' = WithManager(t, g.manager)
                       /\ built' = Count(built, "pipelines", "flux-canny", g)
                       /\ IF g.raises # None
                          THEN Except(t, "generate", g.raises[1])
                          ELSE \/ Advance(t, "generate", "ok", "save",
                                          [co[t] EXCEPT !.passed = Some(prompts)])
                               \/ \E e \in ErrorTexts : Except(t, "generate", e)
                               \/ Hang(t, "generate")
    /\ Quiet
    /\ UNCHANGED hostedCalls

\* 6. save_image(output_image, f"outputs/{request_id}_output.png"): line 118.
StepSave(t) ==
    /\ loop = t
    /\ co[t].pc = "save"
    /\ \/ LET output_path == SavePath(OutputRelPath(co[t].request_id))
          IN  /\ files' = files \cup {output_path}
              /\ co' = [co EXCEPT ![t] = [@ EXCEPT !.pc = "mark_completed",
                                                   !.output_path = Some(output_path)]]
              /\ log' = Event(t, "save", "ok", "")
              /\ UNCHANGED <<loop, now>>
       \/ \E e \in ErrorTexts : Except(t, "save", e)
    /\ Quiet
    /\ UNCHANGED <<services, hostedCalls, built>>

\* 7. self.tasks[task_id]['status'] = 'completed': line 121.
MarkCompleted(t) ==
    /\ loop = t
    /\ co[t].pc = "mark_completed"
    /\ services' = UpdateRecord(t, [status |-> "completed"])
    /\ co' = [co EXCEPT ![t].pc = "mark_output_path"]
    /\ log' = Event(t, "mark_completed", "ok", "")
    /\ Quiet
    /\ UNCHANGED <<loop, files, now, hostedCalls, built>>

\* self.tasks[task_id]['output_path'] = output_path: line 122.
MarkOutputPath(t) ==
    /\ loop = t
    /\ co[t].pc = "mark_output_path"
    /\ services' = UpdateRecord(t, [output_path |-> co[t].output_path[1]])
    /\ co' = [co EXCEPT ![t].pc = "mark_completed_at"]
    /\ log' = Event(t, "mark_output_path", "ok", "")
    /\ Quiet
    /\ UNCHANGED <<loop, files, now, hostedCalls, built>>

\* self.tasks[task_id]['completed_at'] = time.time(), and the coroutine
\* returns: lines 123-125.
MarkCompletedAt(t) ==
    /\ loop = t
    /\ co[t].pc = "mark_completed_at"
    /\ \E at \in ClockReads :
         /\ services' = UpdateRecord(t, [completed_at |-> at])
         /\ now' = at
    /\ co' = [co EXCEPT ![t] = Finished(@)]
    /\ loop' = 0
    /\ log' = Event(t, "mark_completed_at", "ok", "")
    /\ Quiet
    /\ UNCHANGED <<files, hostedCalls, built>>

\* The handler: self.tasks[task_id]['status'] = 'failed', line 129.
MarkFailed(t) ==
    /\ loop = t
    /\ co[t].pc = "mark_failed"
    /\ services' = UpdateRecord(t, [status |-> "failed"])
    /\ co' = [co EXCEPT ![t].pc = "mark_error"]
    /\ log' = Event(t, "mark_failed", "ok", "")
    /\ Quiet
    /\ UNCHANGED <<loop, files, now, hostedCalls, built>>

\* The handler: self.tasks[task_id]['error'] = str(e), and the coroutine
\* returns: line 130.
MarkError(t) ==
    /\ loop = t
    /\ co[t].pc = "mark_error"
    /\ services' = UpdateRecord(t, [error |-> co[t].exc[1]])
    /\ co' = [co EXCEPT ![t] = Finished(@)]
    /\ loop' = 0
    /\ log' = Event(t, "mark_error", "ok", "")
    /\ Quiet
    /\ UNCHANGED <<files, now, hostedCalls, built>>

\* One step of the coroutine of task t.
TaskStep(t) ==
        \/ StartProcess(t)
        \/ StepResize(t)
        \/ StepCaption(t)
        \/ StepPrompts(t)
        \/ StepControl(t)
        \/ StepGenerate(t)
        \/ StepSave(t)
        \/ MarkCompleted(t)
        \/ MarkOutputPath(t)
        \/ MarkCompletedAt(t)
        \/ MarkFailed(t)
        \/ MarkError(t)

\* One step of the pipeline of some task.
Pipeline == \E t \in DOMAIN co : TaskStep(t)

\* The ids a client may ask for: every uuid generated so far and one never issued.
Askable == 1..nextUuid

\* ------------------------------------------------ the application as wired
\* Depends(get_populated_room_service) builds a new PopulatedRoomService for
\* every request, in both endpoint modules.
InitProcess ==
    /\ credential \in BOOLEAN
    /\ co = <<>>
    /\ ready = <<>>
    /\ loop = 0
    /\ files = {}
    /\ now = 0
    /\ nextUuid = 1
    /\ hostedCalls = 0
    /\ built = [r \in Resources |-> 0]
    /\ last = NoExchange
    /\ log = NoEvent

InitCommon ==
    /\ InitProcess
    /\ call = NoCall

Init ==
    /\ InitCommon
    /\ services = <<>>

PostRedesign ==
    \E form \in Forms :
        HandlePost(Append(services, NewService(credential)), Len(services) + 1,
                   form.file, form.color_palette)

GetTask ==
    \E task_id \in Askable : HandleGet(NewService(credential), task_id)

Next == PostRedesign \/ GetTask \/ Pipeline

Spec == Init /\ [][Next]_vars

\* --------------------------------- one PopulatedRoomService for all requests
\* The same two handlers and pipeline with one service object injected into
\* every request (the endpoints take the service as a parameter).
InitShared ==
    /\ InitCommon
    /\ services = <<NewService(credential)>>

PostShared ==
    \E form \in Forms : HandlePost(services, 1, form.file, form.color_palette)

GetShared ==
    \E task_id \in Askable : HandleGet(services[1], task_id)

NextShared == PostShared \/ GetShared \/ Pipeline

SpecShared == InitShared /\ [][NextShared]_vars

\* ------------------------------------ the application under a fair event loop
\* redesign_populated_room when asyncio.create_task raises at line 67: the
\* record was written at lines 60-64 and no coroutine exists for it;
\* submit_redesign_task has no handler, so the exception reaches the except
\* Exception of the endpoint, which answers 500.
PostUnscheduled ==
    \E form \in LiveForms, e \in ErrorTexts, t \in ClockReads :
        LET request_id == Uuid4(nextUuid)
            task_id == Uuid4(nextUuid + 1)
        IN  /\ loop = 0
            /\ nextUuid < 2 * MaxTasks
            /\ form.file.readable
            /\ ValidateImage(form.file).status_code = 200
            /\ files' = files \cup {SavePath(InputRelPath(request_id))}
            /\ services' = SubmitRegistry(Append(services, NewService(credential)),
                                          Len(services) + 1, task_id, request_id, t)
            /\ now' = t
            /\ nextUuid' = nextUuid + 2
            /\ last' = PostError(form.file, form.color_palette, e)
            /\ log' = Event(0, "create_task", "raised", e)
            /\ call' = NoCall
            /\ UNCHANGED <<credential, co, ready, loop, hostedCalls, built>>

\* A call inside the try block of _process_redesign raises an exception that
\* is not an instance of Exception (a BaseException such as
\* asyncio.CancelledError): `except Exception` at line 127 does not catch it,
\* the coroutine ends with it and the record is left as it was.
StepEscapes(t) ==
    /\ loop = t
    /\ co[t].pc \in {"resize", "caption", "prompts", "control", "generate", "save"}
    /\ co' = [co EXCEPT ![t] = Finished(@)]
    /\ loop' = 0
    /\ log' = Event(t, co[t].pc, "escaped", "CancelledError")
    /\ Quiet
    /\ UNCHANGED <<services, files, now, hostedCalls, built>>

PostScheduled ==
    /\ nextUuid < 2 * MaxTasks
    /\ \E form \in LiveForms :
          HandlePost(Append(services, NewService(credential)), Len(services) + 1,
                     form.file, form.color_palette)

PipelineLive == \E t \in DOMAIN co : TaskStep(t) \/ StepEscapes(t)

NextLive == PostScheduled \/ PostUnscheduled \/ GetTask \/ PipelineLive

\* The event loop runs every coroutine it holds: a step of the pipeline that
\* stays possible is eventually taken.
SpecLive == Init /\ [][NextLive]_vars /\ WF_vars(PipelineLive)

\* ------------------------------------------- one ModelManager, called directly
\* The ModelManager of one service under any sequence of get_model,
\* get_processor, get_pipeline, unload_model and unload_pipeline calls.
\* The call `fn`(name) on cache `cache` had outcome `out`.
CallManager(fn, cache, name, out) ==
    /\ out.constructed => built[<<cache, name>>] < MaxLoads
    /\ services' = [services EXCEPT ![1].model_manager = out.manager]
    /\ built' = Count(built, cache, name, out)
    /\ call' = [fn |-> fn, arg |-> Some(name), returns |-> out.returns,
                raises |-> out.raises, constructed |-> out.constructed]
    /\ UNCHANGED <<credential, co, ready, loop, files, now, nextUuid, hostedCalls, last, log>>

CallGetModel ==
    \E name \in Names, load \in LoadOutcomes :
        CallManager("get_model", "models", name,
                    GetModel(services[1].model_manager, name,
                             FreshObject("models", name), load))

CallGetProcessor ==
    \E name \in Names, load \in LoadOutcomes :
        CallManager("get_processor", "processors", name,
                    GetProcessor(services[1].model_manager, name,
                                 FreshObject("processors", name), load))

CallGetPipeline ==
    \E name \in Names, load \in LoadOutcomes :
        CallManager("get_pipeline", "pipelines", name,
                    GetPipeline(services[1].model_manager, name,
                                FreshObject("pipelines", name), load))

\* An unload returns None and raises nothing.
Unloaded(mm) == [manager |-> mm, returns |-> None, raises |-> None, constructed |-> FALSE]

CallUnloadModel ==
    \E name \in Names :
        CallManager("unload_model", "models", name,
                    Unloaded(UnloadModel(services[1].model_manager, name)))

CallUnloadPipeline ==
    \E name \in Names :
        CallManager("unload_pipeline", "pipelines", name,
                    Unloaded(UnloadPipeline(services[1].model_manager, name)))

NextManager ==
    \/ CallGetModel
    \/ CallGetProcessor
    \/ CallGetPipeline
    \/ CallUnloadModel
    \/ CallUnloadPipeline

SpecManager == InitShared /\ [][NextManager]_vars

\* ------------------------------------------------ resize_image, called directly
InitResize ==
    /\ InitProcess
    /\ services = <<>>
    /\ \E width \in ResizeSides, height \in ResizeSides :
          call = [NoCall EXCEPT !.fn = "resize_image", !.arg = Some(<<width, height>>)]

\* resize_image(input_img) with the default target_size returns.
ApplyResize ==
    /\ call.fn = "resize_image"
    /\ call.returns = None
    /\ call' = [call EXCEPT !.returns = Some(ResizeImage(call.arg[1], TargetSize))]
    /\ UNCHANGED <<credential, services, co, ready, loop, files, now, nextUuid, hostedCalls,
                   built, last, log>>

NextResize == ApplyResize

SpecResize == InitResize /\ [][NextResize]_vars

\* ------------------------------------------------------- the static /data mount
\* Paths relative to DATA_DIR that a URL of this application may name.
RelativePaths ==
    { dir \o ToString(i) \o tail : dir \in {"", "inputs/", "outputs/"},
                                   i \in 1..(2 * MaxTasks),
                                   tail \in {"_input.png", "_output.png"} }

\* app.mount("/data", StaticFiles(directory=settings.DATA_DIR)): the files a GET
\* of `url` is served from (none when the URL is not under the mount).
StaticFiles(url) ==
    { DataDir \o "/" \o rel : rel \in { r \in RelativePaths : url = ApiBaseUrl \o "/data/" \o r } }

\* ================================================================ properties
TaskIds == { p[2] : p \in Records }
\* The record of task t, in the registry of the service its coroutine runs on.
RecordOf(t) == services[co[t].svc].tasks[t]

AllowedMoves ==
    { <<"pending", "processing">>, <<"processing", "completed">>, <<"processing", "failed">> }

\* C1: every record starts as pending, is never removed, and its status only
\* stays or moves pending -> processing -> completed | failed: never back,
\* never from pending to a terminal status, never out of a terminal status.
C1_StatusMovesForward ==
    [][ /\ \A p \in Records :
             /\ p[1] \in DOMAIN services'
             /\ p[2] \in DOMAIN services'[p[1]].tasks
             /\ \/ services'[p[1]].tasks[p[2]].status = Rec(p).status
                \/ <<Rec(p).status, services'[p[1]].tasks[p[2]].status>> \in AllowedMoves
        /\ \A s \in DOMAIN services' :
             \A t \in DOMAIN services'[s].tasks :
                <<s, t>> \notin Records => services'[s].tasks[t].status = "pending"
      ]_vars

\* Both terminal statuses have been reached, by two tasks.
C1_Witness ==
    \E p \in Records, q \in Records :
        Rec(p).status = "completed" /\ Rec(q).status = "failed"

\* C2: a GET tasks/{task_id} for a task id that an accepted POST returned
\* finds the record: it is never answered 404.
C2_PollFindsIssuedTask ==
    (last.kind = "get" /\ last.asked \in DOMAIN co) => last.code = 200

\* C3: an accepted submission returns a task id that was not a key of any
\* registry before the call; when the call returns the new record is pending,
\* its coroutine has not started and no coroutine has taken a step.
C3_SubmitFreshAndPending ==
    [][ (last'.kind = "post" /\ last'.code = 200) =>
            /\ last'.task_id[1] \notin TaskIds
            /\ last'.task_id[1] \in DOMAIN co'
            /\ services'[co'[last'.task_id[1]].svc].tasks[last'.task_id[1]].status
                  \in {"pending", "processing"}
            /\ co'[last'.task_id[1]].pc = "created"
            /\ \A t \in DOMAIN co : co'[t] = co[t]
            /\ loop' = loop
      ]_vars

\* A second submission was accepted into a registry that already held a record.
C3_Witness ==
    /\ last.kind = "post"
    /\ last.code = 200
    /\ \E s \in DOMAIN services : Cardinality(DOMAIN services[s].tasks) >= 2

AbortingSteps == {"resize", "control", "generate", "save"}
\* Where a coroutine is while the except handler of _process_redesign runs.
HandlerPcs == {"mark_failed", "mark_error"}

C5_FailedHasNonEmptyError ==
    \A t \in DOMAIN co :
        (co[t].pc = "done" /\ RecordOf(t).status = "failed") =>
            /\ "error" \in DOMAIN RecordOf(t)
            /\ RecordOf(t).error # ""
            /\ "output_path" \notin DOMAIN RecordOf(t)
            /\ "completed_at" \notin DOMAIN RecordOf(t)

\* C6: the GET tasks/{task_id} response for a completed task carries a
\* non-null output URL and a completed_at that is at least created_at.
C6_CompletedReportsOutputUrl ==
    (/\ last.kind = "get"
     /\ last.asked \in DOMAIN co
     /\ RecordOf(last.asked).status = "completed") =>
        /\ last.code = 200
        /\ last.output_url # None
        /\ last.completed_at # None
        /\ last.created_at # None
        /\ last.completed_at[1] >= last.created_at[1]

\* The bounds and formats of validate_image, as the claim states them.
InBounds(u) ==
    /\ 256 <= u.width /\ u.width <= 4096
    /\ 256 <= u.height /\ u.height <= 4096
    /\ u.format \in {"JPEG", "PNG", "JPG"}

\* C7: a POST whose image fails validation is answered with status 400.
C7_ValidationFailureIs400 ==
    (last.kind = "post" /\ last.upload.readable /\ ~InBounds(last.upload)) =>
        last.code = 400

C9_UnknownIdNotFound ==
    /\ [](last.kind = "get" =>
            /\ last.code \in {200, 404}
            /\ last.code = 404 <=> last.asked \notin TaskIds
            /\ last.code = 200 =>
                  /\ last.status # Some("not_found")
                  /\ last.status = Some(RecordOf(last.asked).status))
    /\ [][ last'.kind = "get" => services' = services ]_vars

\* An unknown id was asked for while the registry held a record.
C9_Witness ==
    /\ last.kind = "get"
    /\ last.code = 404
    /\ Records # {}

\* C10: without the credential the hosted service is never called, the prompt
\* step returns normally, the prompts passed to image generation are the two
\* templates built from style and room_type, and a task stops short of
\* completed only where resize, edge detection, image generation or persist
\* raised: it reaches the persist step unless one of them does, and never
\* fails for want of a prompt.
C10_NoCredentialUsesTemplates ==
    ~credential =>
        /\ hostedCalls = 0
        /\ \A t \in DOMAIN co :
              co[t].passed # None =>
                 /\ co[t].passed[1].clip =
                       "A " \o co[t].style[1] \o " " \o co[t].room_type[1]
                       \o " with elegant furniture, balanced lighting, and harmonious colors."
                 /\ (co[t].style[1] = "modern" /\ co[t].room_type[1] = "living room") =>
                       /\ co[t].passed[1].clip =
                             "A modern living room with elegant furniture, balanced lighting, and harmonious colors."
                       /\ co[t].passed[1].t5 =
                             "Transform this living room into a modern style space. Include furniture appropriate for a living room, with balanced composition, proper lighting, and a cohesive color scheme that matches the modern aesthetic."
        /\ log.step = "prompts" => log.outcome = "ok"
        /\ (log.task # 0 /\ log.outcome = "raised") =>
              (log.step \in AbortingSteps /\ log.error # "'t5'")
        /\ \A t \in DOMAIN co :
              (co[t].pc = "done" /\ "error" \notin DOMAIN RecordOf(t)) =>
                 RecordOf(t).status = "completed"

\* Without the credential a task has just completed.
C10_Witness ==
    /\ ~credential
    /\ log.step = "mark_completed_at"
    /\ co[log.task].pc = "done"
    /\ RecordOf(log.task).status = "completed"

\* C11: whatever the hosted call does short of a usable prompt pair, the
\* prompt step returns the template pair: the prompts a task holds after the
\* step always have both the short ("clip") and the long ("t5") prompt, and no
\* task fails for want of one of them.
C11_PromptStepAlwaysYieldsPair ==
    /\ \A t \in DOMAIN co :
          co[t].prompts # None =>
             \/ {"clip", "t5"} \subseteq DOMAIN co[t].prompts[1]
             \/ co[t].prompts[1] = DefaultPrompts(co[t].style[1], co[t].room_type[1])
    /\ \A p \in Records :
          (Rec(p).status = "failed" /\ "error" \in DOMAIN Rec(p)) =>
             Rec(p).error \notin {"'clip'", "'t5'"}

\* C12: a POST whose color_palette is longer than 500 characters is answered
\* with a client error (4xx) and creates no task.
C12_LongPaletteRejected ==
    (/\ last.kind = "post"
     /\ last.color_palette # None
     /\ Len(last.color_palette[1]) > 500) =>
        /\ last.code \in 400..499
        /\ last.task_id = None

Caches == {"models", "processors", "pipelines"}
\* The cache a ModelManager function works on.
CacheOf(fn) ==
    CASE fn \in {"get_model", "unload_model"} -> "models"
      [] fn = "get_processor" -> "processors"
      [] fn \in {"get_pipeline", "unload_pipeline"} -> "pipelines"
\* The names each cache knows how to construct.
KnownNames(cache) ==
    CASE cache = "models" -> {"florence-2"}
      [] cache = "processors" -> {"florence-2", "canny"}
      [] cache = "pipelines" -> {"flux-canny"}

\* C13: in one ModelManager a get for a name its cache holds returns the
\* cached instance, constructs nothing and changes no cache; a get constructs
\* only for a known name the cache does not hold, and then caches and returns
\* the new instance, leaving every other entry alone; a get for an unknown
\* name raises and changes no cache; whatever a get returns is what the cache
\* holds for the name afterwards.
C13_GetConstructsOnceAndCaches ==
    [][ call'.fn \in {"get_model", "get_processor", "get_pipeline"} =>
          LET cache == CacheOf(call'.fn)
              name == call'.arg[1]
              before == services[1].model_manager
              after == services'[1].model_manager
          IN  /\ name \in DOMAIN before[cache] =>
                    /\ call'.returns = Some(before[cache][name])
                    /\ ~call'.constructed
                    /\ after = before
                    /\ built' = built
              /\ call'.constructed =>
                    /\ name \in KnownNames(cache)
                    /\ name \notin DOMAIN before[cache]
                    /\ built' = [built EXCEPT ![<<cache, name>>] = @ + 1]
                    /\ \A c \in Caches :
                          \A n \in DOMAIN before[c] :
                             n \in DOMAIN after[c] /\ after[c][n] = before[c][n]
                    /\ \A c \in Caches : DOMAIN after[c] \subseteq DOMAIN before[c] \cup {name}
              /\ name \notin KnownNames(cache) =>
                    /\ call'.raises # None
                    /\ call'.returns = None
                    /\ after = before
                    /\ built' = built
              /\ call'.returns # None =>
                    /\ name \in DOMAIN after[cache]
                    /\ after[cache][name] = call'.returns[1]
              /\ call'.raises # None => after = before /\ built' = built
      ]_vars

\* A get was answered from the cache.
C13_Witness ==
    /\ call.fn = "get_pipeline"
    /\ call.returns # None
    /\ ~call.constructed
    /\ built[<<"pipelines", "flux-canny">>] = 1

\* C14: over the requests one process handles, each resource the pipeline
\* uses is constructed at most once.
C14_EachResourceBuiltOnce ==
    \A r \in Resources : built[r] <= 1

\* C15: unload_model and unload_pipeline raise nothing, remove exactly the
\* named entry from their cache and leave every other entry of every cache as
\* it was (an uncached name: nothing changes); the next get that returns for a
\* name not in the cache constructs a new instance.
C15_UnloadRemovesExactlyOne ==
    [][ /\ call'.fn \in {"unload_model", "unload_pipeline"} =>
              LET cache == CacheOf(call'.fn)
                  name == call'.arg[1]
                  before == services[1].model_manager
                  after == services'[1].model_manager
              IN  /\ call'.raises = None
                  /\ DOMAIN after[cache] = DOMAIN before[cache] \ {name}
                  /\ \A n \in DOMAIN after[cache] : after[cache][n] = before[cache][n]
                  /\ \A c \in Caches \ {cache} : after[c] = before[c]
                  /\ name \notin DOMAIN before[cache] => after = before
                  /\ built' = built
        /\ (/\ call'.fn \in {"get_model", "get_pipeline"}
            /\ call'.returns # None
            /\ call'.arg[1] \notin DOMAIN services[1].model_manager[CacheOf(call'.fn)]) =>
               /\ call'.constructed
               /\ call'.returns[1].serial = built[<<CacheOf(call'.fn), call'.arg[1]>>] + 1
      ]_vars

\* A model was constructed a second time, after an unload, while the other
\* caches kept their entries.
C15_Witness ==
    /\ call.fn = "get_model"
    /\ call.constructed
    /\ built[<<"models", "florence-2">>] = 2
    /\ services[1].model_manager.processors # <<>>
    /\ services[1].model_manager.pipelines # <<>>

\* C16: while a task hangs in an external call, status and submit requests
\* are still served and every other task that has not ended can still take
\* its next step.
C16_HangBlocksOnlyItself ==
    \A t \in DOMAIN co :
        co[t].pc = "hung" =>
            /\ ENABLED GetTask
            /\ ENABLED PostRedesign
            /\ \A u \in DOMAIN co \ {t} :
                  co[u].pc \notin {"done", "hung"} => ENABLED TaskStep(u)

\* C17: resize_image returns an image of the same width and height for every
\* image whose width and height are both at most 1400.
C17_SmallImageUnchanged ==
    (/\ call.fn = "resize_image"
     /\ call.returns # None
     /\ call.arg[1][1] <= 1400
     /\ call.arg[1][2] <= 1400) =>
        call.returns[1] = call.arg[1]

\* A 1400x1400 image came back as it was.
C17_Witness ==
    /\ call.fn = "resize_image"
    /\ call.arg = Some(<<1400, 1400>>)
    /\ call.returns = Some(<<1400, 1400>>)

\* C18: for an image with a side above 1400, the longer side of the result is
\* exactly 1400, the shorter one is the original shorter side scaled by
\* 1400 / longer to within one pixel and is at least 1 when both original
\* sides are within 256..4096; 2000x1000 becomes 1400x700.
C18_LongerSideBecomesTarget ==
    (/\ call.fn = "resize_image"
     /\ call.returns # None
     /\ (call.arg[1][1] > 1400 \/ call.arg[1][2] > 1400)) =>
        LET size == call.arg[1]
            new == call.returns[1]
            long == IF size[1] >= size[2] THEN 1 ELSE 2
            short == 3 - long
        IN  /\ new[long] = 1400
            /\ new[short] * size[long] - size[short] * 1400 <= size[long]
            /\ size[short] * 1400 - new[short] * size[long] <= size[long]
            /\ (size[short] >= 256 /\ size[long] <= 4096) => new[short] >= 1
            /\ size = <<2000, 1000>> => new = <<1400, 700>>

\* C19: the output_url of an accepted POST resolves, under the static /data
\* mount, to DATA_DIR/outputs/<request id>_output.png for the request id of
\* the task just created; a task keeps its request id, the file its save step
\* writes is that same file and no other, and two tasks never have the same
\* request id, hence never the same output file.
C19_OutputUrlNamesWrittenFile ==
    [][ /\ (last'.kind = "post" /\ last'.code = 200) =>
              StaticFiles(last'.output_url[1]) =
                  { DataDir \o "/outputs/"
                      \o ToString(co'[last'.task_id[1]].request_id) \o "_output.png" }
        /\ \A t \in DOMAIN co :
              /\ t \in DOMAIN co'
              /\ co'[t].request_id = co[t].request_id
              /\ (log'.task = t /\ log'.step = "save" /\ log'.outcome = "ok") =>
                    /\ files' = files \cup { DataDir \o "/outputs/"
                                    \o ToString(co[t].request_id) \o "_output.png" }
                    /\ co'[t].output_path = Some(DataDir \o "/outputs/"
                                    \o ToString(co[t].request_id) \o "_output.png")
        /\ \A t \in DOMAIN co', u \in DOMAIN co' :
              t # u => co'[t].request_id # co'[u].request_id
      ]_vars

\* Two tasks have completed and their records name two different files, both
\* written.
C19_Witness ==
    \E p \in Records, q \in Records :
        /\ Rec(p).status = "completed"
        /\ Rec(q).status = "completed"
        /\ "output_path" \in DOMAIN Rec(p)
        /\ "output_path" \in DOMAIN Rec(q)
        /\ Rec(p).output_path # Rec(q).output_path
        /\ {Rec(p).output_path, Rec(q).output_path} \subseteq files

\* C20: a record returned by get_task_status is never partially written: it
\* has a status and a created_at; when its status is completed it has its
\* output_path and completed_at; when its status is failed it has its error.
C20_NoPartialRecordObserved ==
    (/\ call.fn = "get_task_status"
     /\ call.returns # None
     /\ call.returns[1].status # "not_found") =>
        LET task_info == call.returns[1]
        IN  /\ {"status", "created_at"} \subseteq DOMAIN task_info
            /\ task_info.status = "completed" =>
                  {"output_path", "completed_at"} \subseteq DOMAIN task_info
            /\ task_info.status = "failed" => "error" \in DOMAIN task_info

\* get_task_status returned a completed record while the coroutine of another
\* task was still to run.
C20_Witness ==
    /\ call.fn = "get_task_status"
    /\ call.returns # None
    /\ call.returns[1].status = "completed"
    /\ \E u \in DOMAIN co : u # call.arg[1] /\ co[u].pc # "done"

\* C21: no step removes a record from a registry, and a step taken by the
\* coroutine of task t (or by a request handler) leaves every field of every
\* record other than t's as it was: status, error, output path and timestamps
\* of one task are never changed by the run of another.
C21_TasksAreIndependent ==
    [][ \A p \in Records :
            /\ p[1] \in DOMAIN services'
            /\ p[2] \in DOMAIN services'[p[1]].tasks
            /\ log'.task # p[2] => services'[p[1]].tasks[p[2]] = Rec(p)
      ]_vars

\* The coroutine of one task has just written its terminal status into a
\* registry that already holds the record of another task which ended the
\* other way.
C21_Witness ==
    \E p \in Records, q \in Records :
        /\ p[1] = q[1]
        /\ p[2] # q[2]
        /\ log.task = q[2]
        /\ log.step \in {"mark_completed", "mark_failed"}
        /\ \/ Rec(p).status = "completed" /\ Rec(q).status = "failed"
           \/ Rec(p).status = "failed" /\ Rec(q).status = "completed"

\* A record of task t exists and its status is completed or failed.
Terminal(t) ==
    \E p \in Records : p[2] = t /\ Rec(p).status \in {"completed", "failed"}

\* Some pipeline step has neither returned nor raised.
SomeStepHangs == \E u \in DOMAIN co : co[u].pc = "hung"

\* C22: every record added to a registry eventually has status completed or
\* failed, unless some pipeline step neither returns nor raises.
C22_EveryRecordEventuallyTerminal ==
    \A t \in 1..(2 * MaxTasks) :
        (t \in TaskIds) ~> (Terminal(t) \/ SomeStepHangs)

====
